---- MODULE Spec2Model ----
(***************************************************************************)
(* A model of the redux-helper action generator (src/main.ts).             *)
(*                                                                         *)
(* Text is modelled as a sequence of string tokens whose concatenation is  *)
(* the JavaScript string: every character of an identifier, of a tag       *)
(* argument or of serialised JSON is a token of its own, and a fixed       *)
(* fragment of a template literal is one token.                            *)
(***************************************************************************)
EXTENDS Integers, Sequences, FiniteSets, TLC

\* Longest identifier drawn for the identifier transforms.
MaxIdentLen == 4

\* Most documentation tags on the declaration drawn for the metadata builder.
MaxTags == 3

\* Most top-level nodes in an input file.
MaxNodes == 3

\* How many times the generator is run on the same input.
MaxRuns == 2

(***************************************************************************)
(* Characters and strings                                                  *)
(***************************************************************************)

UpperLetters == {"A", "B"}

\* String.prototype.toUpperCase on one character (the letters the model uses).
UpperChar(c) ==
  CASE c = "a" -> "A"
    [] c = "b" -> "B"
    [] OTHER -> c

\* String.prototype.toLowerCase on one character.
LowerChar(c) ==
  CASE c = "A" -> "a"
    [] c = "B" -> "b"
    [] OTHER -> c

ToUpperCase(s) == [i \in 1..Len(s) |-> UpperChar(s[i])]

ToLowerCase(s) == [i \in 1..Len(s) |-> LowerChar(s[i])]

\* Array.prototype.join: the pieces with sep (a text) between them.
RECURSIVE Join(_, _)
Join(pieces, sep) ==
  IF pieces = <<>> THEN <<>>
  ELSE IF Len(pieces) = 1 THEN pieces[1]
  ELSE pieces[1] \o sep \o Join(Tail(pieces), sep)

\* Array.prototype.filter(s => s): drops the empty strings.
RECURSIVE FilterNonEmpty(_)
FilterNonEmpty(pieces) ==
  IF pieces = <<>> THEN <<>>
  ELSE IF pieces[1] = <<>> THEN FilterNonEmpty(Tail(pieces))
  ELSE <<pieces[1]>> \o FilterNonEmpty(Tail(pieces))

\* The regular expression /()(?=[A-Z])/ tried at 1-based position q of s: it
\* matches the empty string exactly when the character at q is an uppercase
\* letter, and its one capture group is then the empty string.
MatchesAt(s, q) == q <= Len(s) /\ s[q] \in UpperLetters

\* String.prototype.split with that regular expression (ECMAScript's
\* SplitMatcher loop): p is where the current piece starts, q where the next
\* match is tried; an empty match at p itself is skipped, and after every cut
\* the capture group's empty string is spliced into the result.
RECURSIVE SplitLoop(_, _, _, _)
SplitLoop(s, p, q, acc) ==
  IF q > Len(s) THEN Append(acc, SubSeq(s, p, Len(s)))
  ELSE IF ~MatchesAt(s, q) THEN SplitLoop(s, p, q + 1, acc)
  ELSE IF q = p THEN SplitLoop(s, p, q + 1, acc)
  ELSE SplitLoop(s, q, q, acc \o <<SubSeq(s, p, q - 1), <<>>>>)

SplitBeforeUpper(s) == SplitLoop(s, 1, 1, <<>>)

\* String.prototype.split(sep) for a one-character separator.
RECURSIVE SplitOnLoop(_, _, _, _)
SplitOnLoop(s, sep, p, q) ==
  IF q > Len(s) THEN <<SubSeq(s, p, Len(s))>>
  ELSE IF s[q] = sep THEN <<SubSeq(s, p, q - 1)>> \o SplitOnLoop(s, sep, q + 1, q + 1)
  ELSE SplitOnLoop(s, sep, p, q + 1)

SplitOn(s, sep) == SplitOnLoop(s, sep, 1, 1)

MapUpper(pieces) == [i \in 1..Len(pieces) |-> ToUpperCase(pieces[i])]

MapLower(pieces) == [i \in 1..Len(pieces) |-> ToLowerCase(pieces[i])]

\* A slip that drops the filter of empty pieces.
toUnixStyleNoFilter(str) == Join(MapUpper(SplitBeforeUpper(str)), <<"_">>)

\* Converts from fooBar to FOO_BAR.
toUnixStyle(str) ==
  Join(FilterNonEmpty(MapUpper(SplitBeforeUpper(str))), <<"_">>)

\* Converts from fooBarBaz to foo bar baz.
toSentence(str) == Join(MapLower(SplitOn(toUnixStyle(str), "_")), <<" ">>)

\* Returns its input with the first letter lowercased.
uncapitalise(s) ==
  IF s = <<>> THEN <<>> ELSE <<LowerChar(s[1])>> \o SubSeq(s, 2, Len(s))

(***************************************************************************)
(* JavaScript values.  A value is a pair <<kind, content>>: the content of *)
(* a boolean, null or number is its literal text, of a string its          *)
(* characters, of an array its elements, and of an object its own          *)
(* properties as <<key, value>> pairs in property (insertion) order.       *)
(***************************************************************************)

Undefined == <<"undefined", <<>>>>

JTrue == <<"bool", <<"t", "r", "u", "e">>>>

JFalse == <<"bool", <<"f", "a", "l", "s", "e">>>>

JNull == <<"null", <<"n", "u", "l", "l">>>>

JNum(digits) == <<"num", digits>>

JStr(chars) == <<"str", chars>>

JArr(elems) == <<"arr", elems>>

JObj(props) == <<"obj", props>>

EmptyObject == JObj(<<>>)

Digits == {"0", "1", "2", "3"}

\* ToBoolean: what `if (v)` tests.
Truthy(v) ==
  CASE v[1] = "undefined" -> FALSE
    [] v[1] = "null" -> FALSE
    [] v[1] = "bool" -> v = JTrue
    [] v[1] = "num" -> v[2] # <<"0">>
    [] v[1] = "str" -> v[2] # <<>>
    [] OTHER -> TRUE

\* ToString of a primitive, as a template literal's ${...} applies it.
TemplateText(v) == v[2]

HasKey(props, key) == \E i \in 1..Len(props) : props[i][1] = key

\* obj[key] on an object's properties (undefined when there is none).
GetProp(props, key) ==
  IF HasKey(props, key)
  THEN props[CHOOSE i \in 1..Len(props) : props[i][1] = key][2]
  ELSE Undefined

\* A slip in which a property that is already there keeps its value.
SetPropKeepFirst(props, key, val) ==
  IF HasKey(props, key) THEN props ELSE Append(props, <<key, val>>)

\* obj[key] = val: an existing property keeps its place and takes the new
\* value, a new one is added last.
SetProp(props, key, val) ==
  IF HasKey(props, key)
  THEN [i \in 1..Len(props) |->
          IF props[i][1] = key THEN <<key, val>> ELSE props[i]]
  ELSE Append(props, <<key, val>>)

(***************************************************************************)
(* JSON.parse, for JSON without escapes, fractions, exponents or signs.    *)
(* A parser returns [ok, val, pos]: whether it succeeded, the value, and   *)
(* the position after it.                                                  *)
(***************************************************************************)

Whitespace == {" ", "\n"}

Fail == [ok |-> FALSE, val |-> Undefined, pos |-> 0]

Ok(v, p) == [ok |-> TRUE, val |-> v, pos |-> p]

RECURSIVE SkipWs(_, _)
SkipWs(s, i) ==
  IF i <= Len(s) /\ s[i] \in Whitespace THEN SkipWs(s, i + 1) ELSE i

StartsWith(s, i, w) ==
  /\ i + Len(w) - 1 <= Len(s)
  /\ SubSeq(s, i, i + Len(w) - 1) = w

\* The position after the run of digits that starts at i.
RECURSIVE DigitsEnd(_, _)
DigitsEnd(s, i) ==
  IF i <= Len(s) /\ s[i] \in Digits THEN DigitsEnd(s, i + 1) ELSE i

\* The position of the next double quote at or after i (Len(s) + 1 if none).
RECURSIVE QuoteAt(_, _)
QuoteAt(s, i) ==
  IF i > Len(s) \/ s[i] = "\"" THEN i ELSE QuoteAt(s, i + 1)

\* A string literal whose opening quote is at i.
ParseString(s, i) ==
  LET e == QuoteAt(s, i + 1) IN
  IF e > Len(s) \/ \E k \in (i + 1)..(e - 1) : s[k] \in {"\\", "\n"}
  THEN Fail
  ELSE Ok(JStr(SubSeq(s, i + 1, e - 1)), e + 1)

RECURSIVE ParseValue(_, _)
RECURSIVE ParseElements(_, _, _)
RECURSIVE ParseMembers(_, _, _)

\* The elements of an array after "[" or ",", up to and including "]".
ParseElements(s, i, acc) ==
  LET r == ParseValue(s, i) IN
  IF ~r.ok THEN Fail
  ELSE LET j == SkipWs(s, r.pos) IN
       IF j > Len(s) THEN Fail
       ELSE IF s[j] = "," THEN ParseElements(s, j + 1, Append(acc, r.val))
       ELSE IF s[j] = "]" THEN Ok(JArr(Append(acc, r.val)), j + 1)
       ELSE Fail

\* The members of an object after "{" or ",", up to and including "}"; a
\* repeated key overwrites the earlier member.
ParseMembers(s, i, acc) ==
  LET k == SkipWs(s, i) IN
  IF k > Len(s) \/ s[k] # "\"" THEN Fail
  ELSE LET key == ParseString(s, k) IN
       IF ~key.ok THEN Fail
       ELSE LET c == SkipWs(s, key.pos) IN
            IF c > Len(s) \/ s[c] # ":" THEN Fail
            ELSE LET r == ParseValue(s, c + 1) IN
                 IF ~r.ok THEN Fail
                 ELSE LET j == SkipWs(s, r.pos)
                          props == SetProp(acc, key.val[2], r.val)
                      IN IF j > Len(s) THEN Fail
                         ELSE IF s[j] = "," THEN ParseMembers(s, j + 1, props)
                         ELSE IF s[j] = "}" THEN Ok(JObj(props), j + 1)
                         ELSE Fail

ParseValue(s, i) ==
  LET j == SkipWs(s, i) IN
  IF j > Len(s) THEN Fail
  ELSE IF StartsWith(s, j, JTrue[2]) THEN Ok(JTrue, j + 4)
  ELSE IF StartsWith(s, j, JFalse[2]) THEN Ok(JFalse, j + 5)
  ELSE IF StartsWith(s, j, JNull[2]) THEN Ok(JNull, j + 4)
  ELSE IF s[j] = "0" THEN Ok(JNum(<<"0">>), j + 1)
  ELSE IF s[j] \in Digits
       THEN Ok(JNum(SubSeq(s, j, DigitsEnd(s, j) - 1)), DigitsEnd(s, j))
  ELSE IF s[j] = "\"" THEN ParseString(s, j)
  ELSE IF s[j] = "["
       THEN LET k == SkipWs(s, j + 1) IN
            IF k <= Len(s) /\ s[k] = "]" THEN Ok(JArr(<<>>), k + 1)
            ELSE ParseElements(s, j + 1, <<>>)
  ELSE IF s[j] = "{"
       THEN LET k == SkipWs(s, j + 1) IN
            IF k <= Len(s) /\ s[k] = "}" THEN Ok(EmptyObject, k + 1)
            ELSE ParseMembers(s, j + 1, <<>>)
  ELSE Fail

\* JSON.parse(text): [ok |-> FALSE] stands for the SyntaxError it throws.
JSONParse(text) ==
  LET r == ParseValue(text, 1) IN
  IF r.ok /\ SkipWs(text, r.pos) > Len(text)
  THEN [ok |-> TRUE, val |-> r.val]
  ELSE [ok |-> FALSE, val |-> Undefined]

(***************************************************************************)
(* JSON.stringify(value, null, 2)                                          *)
(***************************************************************************)

Gap == <<" ", " ">>

Quote(chars) == <<"\"">> \o chars \o <<"\"">>

RECURSIVE Stringify(_, _)
Stringify(v, indent) ==
  LET inner == indent \o Gap
      sep == <<",", "\n">> \o inner
  IN
  CASE v[1] = "str" -> Quote(v[2])
    [] v[1] = "arr" ->
         IF v[2] = <<>> THEN <<"[", "]">>
         ELSE <<"[", "\n">> \o inner
              \o Join([i \in 1..Len(v[2]) |-> Stringify(v[2][i], inner)], sep)
              \o <<"\n">> \o indent \o <<"]">>
    [] v[1] = "obj" ->
         IF v[2] = <<>> THEN <<"{", "}">>
         ELSE <<"{", "\n">> \o inner
              \o Join([i \in 1..Len(v[2]) |->
                         Quote(v[2][i][1]) \o <<":", " ">>
                         \o Stringify(v[2][i][2], inner)], sep)
              \o <<"\n">> \o indent \o <<"}">>
    [] OTHER -> v[2]

JSONStringify(v) == Stringify(v, <<>>)

(***************************************************************************)
(* The generator's state                                                   *)
(***************************************************************************)

VARIABLES
  flags,        \* minimist's result: [feature |-> the --feature value]
  source,       \* the top-level nodes of the parsed input file
  pc,           \* the statement of run() that executes next
  actions,      \* run's const actions
  imports,      \* run's const imports
  out,          \* what writer.write was given, call by call
  runNo,        \* which run of the generator this is
  prevOut,      \* what the previous run wrote
  str,          \* identifier transforms: the input
  unix,         \* identifier transforms: toUnixStyle(str)
  sentence,     \* identifier transforms: toSentence(str)
  ipc,          \* identifier transforms: the position
  tags,         \* metadata: a declaration's documentation tags
  desc,         \* metadata: the ActionDesc built from them
  meta,         \* metadata: getMeta(desc)
  mpc           \* metadata: the position

runVars == <<source, pc, actions, imports, out, runNo, prevOut>>

identVars == <<str, unix, sentence, ipc>>

metaVars == <<tags, desc, meta, mpc>>

vars == <<flags, runVars, identVars, metaVars>>

(***************************************************************************)
(* Extraction                                                              *)
(***************************************************************************)

\* The fields of an interface: its PropertySignature children, in order.
RECURSIVE FieldsOf(_)
FieldsOf(members) ==
  IF members = <<>> THEN <<>>
  ELSE IF members[1].kind = "PropertySignature"
       THEN <<[name |-> members[1].name,
               type |-> members[1].type,
               optional |-> members[1].questionToken]>>
            \o FieldsOf(Tail(members))
  ELSE FieldsOf(Tail(members))

\* A slip that takes a tag whose argument does not parse as one without
\* argument.
AnnotationOfLenient(tag) ==
  IF tag.text # <<>> /\ JSONParse(tag.text).ok
  THEN [ok |-> TRUE, ann |-> [name |-> tag.name, arg |-> JSONParse(tag.text).val]]
  ELSE [ok |-> TRUE, ann |-> [name |-> tag.name, arg |-> JTrue]]

\* One documentation tag as an Annotation; ok is FALSE when JSON.parse throws.
AnnotationOf(tag) ==
  IF tag.text # <<>>
  THEN LET r == JSONParse(tag.text) IN
       [ok |-> r.ok, ann |-> [name |-> tag.name, arg |-> r.val]]
  ELSE [ok |-> TRUE, ann |-> [name |-> tag.name, arg |-> JTrue]]

\* getJsDocTags().map(...): ok is FALSE when the callback throws.
AnnotationsOf(tagSeq) ==
  [ok |-> \A i \in 1..Len(tagSeq) : AnnotationOf(tagSeq[i]).ok,
   anns |-> [i \in 1..Len(tagSeq) |-> AnnotationOf(tagSeq[i]).ann]]

\* Converts an interface declaration to an action.
interfaceToActionDesc(imp) ==
  LET a == AnnotationsOf(imp.tags) IN
  [ok |-> a.ok,
   action |-> [name |-> imp.name,
               fields |-> FieldsOf(imp.members),
               annotations |-> IF a.ok THEN a.anns ELSE <<>>]]

IsInterface(node) == node.kind = "InterfaceDeclaration"

\* A slip that adds each action at the front.
PushFront(list, action) == <<action>> \o list

\* actions.push(action)
Push(list, action) == Append(list, action)

\* Returns all ActionDescs within a TS source file: parseAction on every child
\* in order, the non-null results pushed; ok is FALSE when one of them throws.
RECURSIVE ExtractLoop(_, _)
ExtractLoop(nodes, acc) ==
  IF nodes = <<>> THEN [ok |-> TRUE, actions |-> acc]
  ELSE IF IsInterface(nodes[1])
       THEN LET r == interfaceToActionDesc(nodes[1]) IN
            IF r.ok THEN ExtractLoop(Tail(nodes), Push(acc, r.action))
            ELSE [ok |-> FALSE, actions |-> <<>>]
  ELSE ExtractLoop(Tail(nodes), acc)

extractActionDescs(src) == ExtractLoop(src, <<>>)

\* Returns all import statements in a TS source file.
RECURSIVE extractImports(_)
extractImports(src) ==
  IF src = <<>> THEN <<>>
  ELSE IF src[1].kind = "ImportDeclaration"
       THEN <<src[1].text>> \o extractImports(Tail(src))
  ELSE extractImports(Tail(src))

(***************************************************************************)
(* Metadata                                                                *)
(***************************************************************************)

FeatureKey == <<"f", "e", "a", "t", "u", "r", "e">>

\* annotations.reduce((acc, ann) => { acc[ann.name] = ann.arg; ... }, {})
RECURSIVE Reduce(_, _)
Reduce(anns, acc) ==
  IF anns = <<>> THEN acc
  ELSE Reduce(Tail(anns), SetProp(acc, anns[1].name, anns[1].arg))

\* A slip that sets the feature label before the annotations are applied.
getMetaLabelFirst(action) ==
  JObj(Reduce(action.annotations,
              IF Truthy(flags.feature)
              THEN SetProp(<<>>, FeatureKey, flags.feature)
              ELSE <<>>))

getMeta(action) ==
  LET obj == Reduce(action.annotations, <<>>) IN
  JObj(IF Truthy(flags.feature)
       THEN SetProp(obj, FeatureKey, flags.feature)
       ELSE obj)

(***************************************************************************)
(* Emission                                                                *)
(***************************************************************************)

\* result.join("\n")
Lines(texts) == Join(texts, <<"\n">>)

\* The previous version of the generator, whose enum values are the enum names.
getActionTypeValueUnix(action) == toUnixStyle(action.name)

\* Get the name of an action's type, e.g. for action FooBar in the baz feature
\* this will be [baz] foo bar.
getActionTypeValue(action) ==
  LET prefix == IF Truthy(flags.feature)
                THEN <<"[">> \o TemplateText(flags.feature) \o <<"]", " ">>
                ELSE <<>>
  IN prefix \o toSentence(action.name)

\* Returns the enum that contains the names of all actions.
genActionsEnum(as) ==
  Lines(<< <<"export enum Actions {">> >>
        \o [i \in 1..Len(as) |->
              <<"  ">> \o toUnixStyle(as[i].name) \o <<" = \"">>
              \o getActionTypeValue(as[i]) \o <<"\",">>]
        \o << <<"}">> >>)

\* Generates the metadata table for this file's actions.
genMetadata(as) ==
  Lines(<< <<"export const metadata = {">> >>
        \o [i \in 1..Len(as) |->
              <<"  [Actions.">> \o toUnixStyle(as[i].name) \o <<"]: ">>
              \o JSONStringify(getMeta(as[i])) \o <<",">>]
        \o << <<"};">> >>)

\* Returns the type definition that embodies the given action.
genActionType(action) ==
  Lines(<< <<"export interface ">> \o action.name
             \o <<"Action extends PayloadAction<actions.">> \o action.name
             \o <<"> {">>,
           <<"  type: typeof Actions.">> \o toUnixStyle(action.name) \o <<";">>,
           <<"}">> >>)

\* Returns the type that is a union of all the action types.
genActionsUnion(as) ==
  Lines(<< <<"export type Action = ">> >>
        \o [i \in 1..Len(as) |-> <<"  | ">> \o as[i].name \o <<"Action">>]
        \o << <<"  ;">> >>)

\* Returns the action type definitions as well as their union.
genActionTypes(as) ==
  Join([i \in 1..Len(as) |-> genActionType(as[i])], <<"\n", "\n">>)

\* Returns the action creator for the given action.
genActionCreator(action) ==
  LET actionType == action.name \o <<"Action">>
      actionEnum == toUnixStyle(action.name)
      actionCreator == uncapitalise(action.name)
      fs == action.fields
  IN
  Lines(<< <<"export function ">> \o actionCreator \o <<"(">> >>
        \o [i \in 1..Len(fs) |->
              <<"  ">> \o fs[i].name
              \o (IF fs[i].optional THEN <<"?">> ELSE <<>>)
              \o <<": ">> \o fs[i].type \o <<",">>]
        \o << <<"): ">> \o actionType \o <<" {">>,
              <<"  return {">>,
              <<"    type: Actions.">> \o actionEnum \o <<",">>,
              <<"    payload: {">> >>
        \o [i \in 1..Len(fs) |-> <<"      ">> \o fs[i].name \o <<",">>]
        \o << <<"    },">>,
              <<"    meta: metadata[Actions.">> \o actionEnum \o <<"],">>,
              <<"  };">>,
              <<"}">> >>)

\* Returns the action creators for the given actions.
genActionCreators(as) ==
  Join([i \in 1..Len(as) |-> genActionCreator(as[i])], <<"\n", "\n">>)

payloadActionDefinition ==
  <<"\n", "interface PayloadAction<P> extends redux.Action {", "\n",
    "  payload: P;", "\n", "  meta: {};", "\n", "}">>

(***************************************************************************)
(* Inputs                                                                  *)
(***************************************************************************)

BoundedSeqs(S, n) == UNION {[1..k -> S] : k \in 0..n}

\* The --feature values: absent, the empty string, a label.
FlagValues == {Undefined, JStr(<<>>), JStr(<<"x">>)}

FooTag == <<"f", "o", "o">>

\* Tag arguments: none, {"a":1}, {"b":2}, "y", and the malformed {a}.
NoText == <<>>

TextA1 == <<"{", "\"", "a", "\"", ":", "1", "}">>

TextB2 == <<"{", "\"", "b", "\"", ":", "2", "}">>

TextY == <<"\"", "y", "\"">>

TextBad == <<"{", "a", "}">>

Tag(n, t) == [name |-> n, text |-> t]

TagSet == {Tag(n, t) : n \in {FooTag, FeatureKey},
                       t \in {NoText, TextA1, TextB2, TextBad}}

Member(k, n, t, q) == [kind |-> k, name |-> n, type |-> t, questionToken |-> q]

Node(k, n, ms, ts, txt) ==
  [kind |-> k, name |-> n, members |-> ms, tags |-> ts, text |-> txt]

\* import * as t from "./types";
ImportNode ==
  Node("ImportDeclaration", <<>>, <<>>, <<>>,
       <<"import * as t from \"./types\";">>)

\* A type alias, with a documentation tag that is no JSON.
AliasNode ==
  Node("TypeAliasDeclaration", <<"T">>, <<>>, <<Tag(FooTag, TextBad)>>, <<>>)

\* interface AB { u: string; p?: string } with @feature "y", @foo {"a":1},
\* @foo {"b":2}
NodeAB ==
  Node("InterfaceDeclaration", <<"A", "B">>,
       <<Member("PropertySignature", <<"u">>, <<"string">>, FALSE),
         Member("PropertySignature", <<"p">>, <<"string">>, TRUE)>>,
       <<Tag(FeatureKey, TextY), Tag(FooTag, TextA1), Tag(FooTag, TextB2)>>,
       <<>>)

\* interface A_b { m(): void; r: t.Foo } without tags
NodeA_b ==
  Node("InterfaceDeclaration", <<"A", "_", "b">>,
       <<Member("MethodSignature", <<"m">>, <<"void">>, FALSE),
         Member("PropertySignature", <<"r">>, <<"t.Foo">>, FALSE)>>,
       <<>>, <<>>)

\* interface Ab { s?: string } with @foo
NodeAb ==
  Node("InterfaceDeclaration", <<"A", "b">>,
       <<Member("PropertySignature", <<"s">>, <<"string">>, TRUE)>>,
       <<Tag(FooTag, NoText)>>, <<>>)

\* interface Ba {} with @foo {"a":1} and the malformed @foo {a}
NodeBa ==
  Node("InterfaceDeclaration", <<"B", "a">>, <<>>,
       <<Tag(FooTag, TextA1), Tag(FooTag, TextBad)>>, <<>>)

NodeSet == {ImportNode, AliasNode, NodeAB, NodeA_b, NodeAb, NodeBa}

IdentChars == {"a", "A", "B", "_", "$", "1"}

\* Identifier-shaped names: not empty, not starting with a digit.
Identifiers ==
  {s \in BoundedSeqs(IdentChars, MaxIdentLen) : s # <<>> /\ s[1] # "1"}

(***************************************************************************)
(* The run of the generator                                                *)
(***************************************************************************)

NoDesc == [name |-> <<>>, fields |-> <<>>, annotations |-> <<>>]

IdentIdle ==
  /\ str = <<>>
  /\ unix = <<>>
  /\ sentence = <<>>
  /\ ipc = "idle"

MetaIdle ==
  /\ tags = <<>>
  /\ desc = NoDesc
  /\ meta = EmptyObject
  /\ mpc = "idle"

RunIdle ==
  /\ source = <<>>
  /\ pc = "idle"
  /\ actions = <<>>
  /\ imports = <<>>
  /\ out = <<>>
  /\ runNo = 1
  /\ prevOut = <<>>

\* const flags = minimist(process.argv.slice(2)); run(filename, ...)
Init ==
  /\ flags \in {[feature |-> f] : f \in FlagValues}
  /\ source \in BoundedSeqs(NodeSet, MaxNodes)
  /\ pc = "L242"
  /\ actions = <<>>
  /\ imports = <<>>
  /\ out = <<>>
  /\ runNo = 1
  /\ prevOut = <<>>
  /\ IdentIdle
  /\ MetaIdle

\* writer.write(text), then on to the statement at next.
Write(here, text, next) ==
  /\ pc = here
  /\ out' = Append(out, text)
  /\ pc' = next
  /\ UNCHANGED <<flags, source, actions, imports, runNo, prevOut, identVars, metaVars>>

\* A slip that leaves a write out.
Skip(here, next) ==
  /\ pc = here
  /\ pc' = next
  /\ UNCHANGED <<flags, source, actions, imports, out, runNo, prevOut, identVars, metaVars>>

\* const actions = extractActionDescs(source, checker);
\* const imports = extractImports(source);
\* A tag that is no JSON throws out of run, and the process dies.
Extract ==
  /\ pc = "L242"
  /\ LET r == extractActionDescs(source) IN
     IF r.ok
     THEN /\ actions' = r.actions
          /\ imports' = extractImports(source)
          /\ pc' = "L245"
     ELSE /\ pc' = "failed"
          /\ UNCHANGED <<actions, imports>>
  /\ UNCHANGED <<flags, source, out, runNo, prevOut, identVars, metaVars>>

WriteReduxImport ==
  Write("L245", <<"import * as redux from \"redux\"">>, "L246")

WriteActionsImport ==
  Write("L246", <<"import * as actions from \"./actions\";", "\n">>, "L247")

WriteImports == Write("L247", Lines(imports) \o <<"\n">>, "L248")

WriteEnum == Write("L248", genActionsEnum(actions), "L249")

\* writer.write() hands console.log no argument: an empty line.
WriteBlankAfterEnum == Write("L249", <<>>, "L250")

WriteMetadata == Write("L250", genMetadata(actions), "L251")

WriteBlankAfterMetadata == Write("L251", <<>>, "L252")

WritePayloadActionDefinition == Write("L252", payloadActionDefinition, "L253")

WriteActionTypes == Write("L253", genActionTypes(actions), "L254")

SkipBlankAfterTypes == Skip("L254", "L255")

WriteBlankAfterTypes == Write("L254", <<>>, "L255")

WriteUnion == Write("L255", genActionsUnion(actions), "L256")

WriteBlankAfterUnion == Write("L256", <<>>, "L257")

WriteActionCreators == Write("L257", genActionCreators(actions), "done")

\* A slip in which the sink still holds what the previous run wrote.
RerunAppending ==
  /\ pc \in {"done", "failed"}
  /\ runNo < MaxRuns
  /\ prevOut' = out
  /\ actions' = <<>>
  /\ imports' = <<>>
  /\ pc' = "L242"
  /\ runNo' = runNo + 1
  /\ UNCHANGED <<flags, source, out, identVars, metaVars>>

\* The generator is started again on the same file with the same flags: a new
\* process, with a sink of its own.
Rerun ==
  /\ pc \in {"done", "failed"}
  /\ runNo < MaxRuns
  /\ prevOut' = out
  /\ out' = <<>>
  /\ actions' = <<>>
  /\ imports' = <<>>
  /\ pc' = "L242"
  /\ runNo' = runNo + 1
  /\ UNCHANGED <<flags, source, identVars, metaVars>>

Next ==
  \/ Extract
  \/ WriteReduxImport
  \/ WriteActionsImport
  \/ WriteImports
  \/ WriteEnum
  \/ WriteBlankAfterEnum
  \/ WriteMetadata
  \/ WriteBlankAfterMetadata
  \/ WritePayloadActionDefinition
  \/ WriteActionTypes
  \/ WriteBlankAfterTypes
  \/ WriteUnion
  \/ WriteBlankAfterUnion
  \/ WriteActionCreators
  \/ Rerun

Spec == Init /\ [][Next]_vars

(***************************************************************************)
(* The identifier transforms on their own                                  *)
(***************************************************************************)

IdentInit ==
  /\ str \in Identifiers
  /\ unix = <<>>
  /\ sentence = <<>>
  /\ ipc = "unix"
  /\ flags = [feature |-> Undefined]
  /\ RunIdle
  /\ MetaIdle

ApplyToUnixStyle ==
  /\ ipc = "unix"
  /\ unix' = toUnixStyle(str)
  /\ ipc' = "sentence"
  /\ UNCHANGED <<str, sentence, flags, runVars, metaVars>>

ApplyToSentence ==
  /\ ipc = "sentence"
  /\ sentence' = toSentence(str)
  /\ ipc' = "done"
  /\ UNCHANGED <<str, unix, flags, runVars, metaVars>>

IdentNext == ApplyToUnixStyle \/ ApplyToSentence

IdentSpec == IdentInit /\ [][IdentNext]_vars

(***************************************************************************)
(* The metadata of one declaration on its own                              *)
(***************************************************************************)

MetaInit ==
  /\ flags \in {[feature |-> f] : f \in FlagValues}
  /\ tags \in BoundedSeqs(TagSet, MaxTags)
  /\ desc = NoDesc
  /\ meta = EmptyObject
  /\ mpc = "parse"
  /\ RunIdle
  /\ IdentIdle

\* interfaceToActionDesc on a declaration that carries the tags.
ParseTags ==
  /\ mpc = "parse"
  /\ LET r == interfaceToActionDesc(
                Node("InterfaceDeclaration", <<"A", "b">>, <<>>, tags, <<>>))
     IN IF r.ok
        THEN desc' = r.action /\ mpc' = "meta"
        ELSE desc' = desc /\ mpc' = "failed"
  /\ UNCHANGED <<tags, meta, flags, runVars, identVars>>

BuildMeta ==
  /\ mpc = "meta"
  /\ meta' = getMeta(desc)
  /\ mpc' = "done"
  /\ UNCHANGED <<tags, desc, flags, runVars, identVars>>

MetaNext == ParseTags \/ BuildMeta

MetaSpec == MetaInit /\ [][MetaNext]_vars

(***************************************************************************)
(* Properties of the identifier transforms (IdentSpec)                     *)
(***************************************************************************)

Largest(S) == CHOOSE j \in S : \A k \in S : k <= j

Smallest(S) == CHOOSE j \in S : \A k \in S : j <= k

\* The k-th smallest element of a set of numbers.
Kth(S, k) == CHOOSE x \in S : Cardinality({y \in S : y < x}) = k - 1

\* The pieces of s when a new piece starts at each position of cuts.
CutAt(s, cuts) ==
  LET starts == {1} \cup cuts
      ends == cuts \cup {Len(s) + 1}
  IN [k \in 1..Cardinality(starts) |->
        LET p == Kth(starts, k) IN
        SubSeq(s, p, Smallest({q \in ends : q > p}) - 1)]

\* A new piece before every uppercase letter but the first character.
UpperCuts(s) == {i \in 2..Len(s) : s[i] \in UpperLetters}

\* A new piece at the first letter of every run of uppercase letters.
RunCuts(s) ==
  {i \in 2..Len(s) : s[i] \in UpperLetters /\ s[i - 1] \notin UpperLetters}

SameUpToCase(xs, ys) ==
  /\ Len(xs) = Len(ys)
  /\ \A i \in 1..Len(xs) : ToLowerCase(xs[i]) = ToLowerCase(ys[i])

SegmentsAgree ==
  /\ SameUpToCase(SplitOn(unix, "_"), SplitOn(sentence, " "))
  /\ SameUpToCase(SplitOn(unix, "_"), CutAt(str, UpperCuts(str)))

HasUnderscore(s) == \E i \in 1..Len(s) : s[i] = "_"

C5_RunStartsOneSegment ==
  ipc # "unix" => unix = Join(MapUpper(CutAt(str, RunCuts(str))), <<"_">>)

(***************************************************************************)
(* Properties of the metadata of one declaration (MetaSpec)                *)
(***************************************************************************)

\* The argument of the last annotation called n.
LastArg(anns, n) ==
  anns[Largest({i \in 1..Len(anns) : anns[i].name = n})].arg

Named(anns, n) == \E i \in 1..Len(anns) : anns[i].name = n

NoDuplicateKeys(props) ==
  \A i, j \in 1..Len(props) : props[i][1] = props[j][1] => i = j

LabelConfigured == Truthy(flags.feature)

\* C1 as stated: the metadata maps every annotation name to the argument of
\* the last annotation with that name.
C1_LastAnnotationWins ==
  mpc = "done" =>
    \A i \in 1..Len(desc.annotations) :
      GetProp(meta[2], desc.annotations[i].name)
        = LastArg(desc.annotations, desc.annotations[i].name)

\* C1 amended: the metadata has one property per annotation name, and maps
\* every annotation name, other than feature in a run with a feature label,
\* to the argument of the last annotation with that name.
C1_LastAnnotationWinsButLabel ==
  mpc = "done" =>
    /\ NoDuplicateKeys(meta[2])
    /\ \A i \in 1..Len(desc.annotations) :
         LET n == desc.annotations[i].name IN
         /\ HasKey(meta[2], n)
         /\ (n = FeatureKey /\ LabelConfigured)
              \/ GetProp(meta[2], n) = LastArg(desc.annotations, n)

\* @foo {"a":1} then @foo {"b":2}, without a label, give {"foo": {"b":2}}.
C1_Witness ==
  /\ mpc = "done"
  /\ ~LabelConfigured
  /\ tags = <<Tag(FooTag, TextA1), Tag(FooTag, TextB2)>>
  /\ meta = JObj(<< <<FooTag, JObj(<< <<(<<"b">>), JNum(<<"2">>)>> >>)>> >>)

\* C2: with a feature label the metadata's feature is the label whatever the
\* annotations are; without one the metadata has a feature exactly when an
\* annotation is called feature, and it is that annotation's argument.
C2_LabelWins ==
  mpc = "done" =>
    IF LabelConfigured
    THEN GetProp(meta[2], FeatureKey) = flags.feature
    ELSE /\ HasKey(meta[2], FeatureKey) <=> Named(desc.annotations, FeatureKey)
         /\ Named(desc.annotations, FeatureKey) =>
              GetProp(meta[2], FeatureKey) = LastArg(desc.annotations, FeatureKey)

\* A labelled run over a declaration whose last tag is @feature with another
\* value.
C2_Witness ==
  /\ mpc = "done"
  /\ LabelConfigured
  /\ Len(desc.annotations) >= 2
  /\ desc.annotations[Len(desc.annotations)].name = FeatureKey
  /\ desc.annotations[Len(desc.annotations)].arg # flags.feature
  /\ GetProp(meta[2], FeatureKey) = flags.feature

(***************************************************************************)
(* Reading the generated text back                                         *)
(***************************************************************************)

\* The tokens of text from position p up to the first token of stops.
TakeUntil(text, p, stops) ==
  LET ends == {q \in p..Len(text) : text[q] \in stops} \cup {Len(text) + 1}
  IN SubSeq(text, p, Smallest(ends) - 1)

\* For every occurrence of the token marker in text at or after p, in order,
\* what follows it up to the first token of stops.
ReadAll(text, p, marker, stops) ==
  LET at == {q \in p..Len(text) : text[q] = marker} IN
  [k \in 1..Cardinality(at) |-> TakeUntil(text, Kth(at, k) + 1, stops)]

\* The interface declarations of the input, in source order.
IsDeclaredRecord(node) == node.kind = "InterfaceDeclaration"

Declared == SelectSeq(source, IsDeclaredRecord)

DeclaredNames == [i \in 1..Len(Declared) |-> Declared[i].name]

IsProperty(member) == member.kind = "PropertySignature"

\* The names of the i-th declared record's properties, in declared order.
DeclaredFieldNames(i) ==
  LET ps == SelectSeq(Declared[i].members, IsProperty) IN
  [k \in 1..Len(ps) |-> ps[k].name]

\* The generated enum: its members' names and their string values.
EnumIds == ReadAll(out[4], 1, "  ", {" = \""})

EnumValues == ReadAll(out[4], 1, " = \"", {"\","})

\* The generated metadata table: its entries' enum members and their values.
TableIds == ReadAll(out[6], 1, "  [Actions.", {"]: "})

TableJson ==
  LET runs == ReadAll(out[6], 1, "]: ", {"  [Actions.", "};"}) IN
  [i \in 1..Len(runs) |-> SubSeq(runs[i], 1, Len(runs[i]) - 2)]

TableValues == [i \in 1..Len(TableJson) |-> JSONParse(TableJson[i]).val]

TypeNames ==
  ReadAll(out[9], 1, "export interface ",
          {"Action extends PayloadAction<actions."})

UnionNames == ReadAll(out[11], 1, "  | ", {"Action"})

CreatorNames == ReadAll(out[13], 1, "export function ", {"("})

\* What each generated constructor returns, as the text emitted for it says.
CreatorTypeIds == ReadAll(out[13], 1, "    type: Actions.", {","})

CreatorMetaIds == ReadAll(out[13], 1, "    meta: metadata[Actions.", {"],"})

CreatorBodies == ReadAll(out[13], 1, "export function ", {"  };"})

CreatorPayload(i) == ReadAll(CreatorBodies[i], 1, "      ", {","})

\* Actions.<id> in the generated module: a later member of the same name
\* overwrites an earlier one.
ActionsEnum(id) ==
  EnumValues[Largest({j \in 1..Len(EnumIds) : EnumIds[j] = id})]

\* metadata[key] in the generated module: of the entries whose computed key
\* is key the last one stands.
MetadataAt(key) ==
  LET js == {j \in 1..Len(TableIds) : ActionsEnum(TableIds[j]) = key} IN
  IF js = {} THEN Undefined ELSE TableValues[Largest(js)]

\* The value the i-th generated constructor returns.
Returned(i) ==
  [type |-> ActionsEnum(CreatorTypeIds[i]),
   payload |-> CreatorPayload(i),
   meta |-> MetadataAt(ActionsEnum(CreatorMetaIds[i]))]

(***************************************************************************)
(* Properties of the run (Spec)                                            *)
(***************************************************************************)

LabelPrefix ==
  IF LabelConfigured THEN <<"[">> \o flags.feature[2] \o <<"]", " ">> ELSE <<>>

CarriesPrefix(value) == LabelConfigured /\ StartsWith(value, 1, LabelPrefix)

\* C3: every enum value is toSentence(record name), after "[<label>] " when
\* the run has a feature label, and a value carries the prefix exactly when
\* the record's metadata carries feature = <label>.
C3_EnumValues ==
  /\ Len(out) >= 4 =>
       /\ Len(EnumValues) = Len(Declared)
       /\ \A i \in 1..Len(Declared) :
            EnumValues[i] = LabelPrefix \o toSentence(DeclaredNames[i])
  /\ Len(out) >= 6 =>
       \A i \in 1..Len(Declared) :
         CarriesPrefix(EnumValues[i])
           <=> (LabelConfigured
                /\ GetProp(TableValues[i][2], FeatureKey) = flags.feature)

\* A labelled run over two records or more, one
\* of which has a @feature tag of its own.
C3_Witness ==
  /\ Len(out) >= 6
  /\ LabelConfigured
  /\ Len(Declared) >= 2
  /\ \E i \in 1..Len(Declared) : Named(actions[i].annotations, FeatureKey)
  /\ \A i \in 1..Len(Declared) : CarriesPrefix(EnumValues[i])

MalformedTag(tag) == tag.text # <<>> /\ ~JSONParse(tag.text).ok

\* Whether the k-th node is a record with a tag whose argument is no JSON.
MalformedRecord(k) ==
  /\ IsDeclaredRecord(source[k])
  /\ \E j \in 1..Len(source[k].tags) : MalformedTag(source[k].tags[j])

\* C6: a run over an input in which a record has a malformed tag fails, and
\* nothing is written in it: not before the failure and not after.
C6_NoOutputOnMalformedTag ==
  /\ pc = "failed" => out = <<>>
  /\ (\E k \in 1..Len(source) : MalformedRecord(k)) =>
       (out = <<>> /\ pc \in {"L242", "failed"})

\* A failed run over three records of which only the last is malformed.
C6_Witness ==
  /\ pc = "failed"
  /\ Len(source) = 3
  /\ \A k \in 1..3 : IsDeclaredRecord(source[k])
  /\ \A k \in 1..2 : ~MalformedRecord(k) /\ source[k].tags # <<>>
  /\ MalformedRecord(3)
  /\ out = <<>>

DistinctNames ==
  \A i, j \in 1..Len(Declared) :
    DeclaredNames[i] = DeclaredNames[j] => i = j

\* C7 as stated: when the record names are pairwise distinct, each record's
\* constructor returns that record's enum value, that record's fields in
\* declared order, and that record's metadata.
C7_ConstructorReturnsOwn ==
  (pc = "done" /\ DistinctNames) =>
    \A i \in 1..Len(Declared) :
      /\ Returned(i).type = EnumValues[i]
      /\ Returned(i).payload = DeclaredFieldNames(i)
      /\ Returned(i).meta = getMeta(actions[i])

\* C8: one descriptor per interface declaration in source order, and one
\* entry per descriptor, in that order, in the enum, the metadata table, the
\* payload types, the union and the constructors.
C8_OneEntryPerRecordInOrder ==
  /\ pc \notin {"L242", "failed"} =>
       /\ Len(actions) = Len(Declared)
       /\ \A i \in 1..Len(Declared) :
            /\ actions[i].name = DeclaredNames[i]
            /\ Len(actions[i].annotations) = Len(Declared[i].tags)
            /\ [k \in 1..Len(actions[i].fields) |-> actions[i].fields[k].name]
                 = DeclaredFieldNames(i)
  /\ Len(out) >= 4 =>
       EnumIds = [i \in 1..Len(Declared) |-> toUnixStyle(DeclaredNames[i])]
  /\ Len(out) >= 6 =>
       TableIds = [i \in 1..Len(Declared) |-> toUnixStyle(DeclaredNames[i])]
  /\ Len(out) >= 9 => TypeNames = DeclaredNames
  /\ Len(out) >= 11 => UnionNames = DeclaredNames
  /\ Len(out) >= 13 =>
       CreatorNames = [i \in 1..Len(Declared) |-> uncapitalise(DeclaredNames[i])]

\* A finished run over two records of different names with another kind of
\* declaration between them.
C8_Witness ==
  /\ pc = "done"
  /\ Len(source) = 3
  /\ IsDeclaredRecord(source[1])
  /\ ~IsDeclaredRecord(source[2])
  /\ IsDeclaredRecord(source[3])
  /\ source[1].name # source[3].name
  /\ Len(CreatorNames) = 2

StartsLike(chunk, first) == chunk # <<>> /\ chunk[1] = first

ImportTexts ==
  LET ns == SelectSeq(source, LAMBDA n : n.kind = "ImportDeclaration") IN
  [i \in 1..Len(ns) |-> ns[i].text]

IsReduxImport(c) == c = <<"import * as redux from \"redux\"">>

IsActionsImport(c) == c = <<"import * as actions from \"./actions\";", "\n">>

IsPassThrough(c) == c = Lines(ImportTexts) \o <<"\n">>

IsEnumBlock(c) == StartsLike(c, "export enum Actions {")

IsBlank(c) == c = <<>>

IsTable(c) == StartsLike(c, "export const metadata = {")

IsWrapper(c) ==
  \E i \in 1..Len(c) : c[i] = "interface PayloadAction<P> extends redux.Action {"

IsTypes(c) ==
  IF Declared = <<>> THEN c = <<>> ELSE StartsLike(c, "export interface ")

IsUnion(c) == StartsLike(c, "export type Action = ")

IsCreators(c) ==
  IF Declared = <<>> THEN c = <<>> ELSE StartsLike(c, "export function ")

\* C9 as stated: the writes are, in order, the two fixed imports, the
\* pass-through imports, the enum, a blank, the metadata table, a blank, the
\* wrapper type, the payload types, the union, a blank, the constructors.
C9_ClaimedWriteOrder ==
  /\ Len(out) <= 12
  /\ pc = "done" => Len(out) = 12
  /\ Len(out) >= 1 => IsReduxImport(out[1])
  /\ Len(out) >= 2 => IsActionsImport(out[2])
  /\ Len(out) >= 3 => IsPassThrough(out[3])
  /\ Len(out) >= 4 => IsEnumBlock(out[4])
  /\ Len(out) >= 5 => IsBlank(out[5])
  /\ Len(out) >= 6 => IsTable(out[6])
  /\ Len(out) >= 7 => IsBlank(out[7])
  /\ Len(out) >= 8 => IsWrapper(out[8])
  /\ Len(out) >= 9 => IsTypes(out[9])
  /\ Len(out) >= 10 => IsUnion(out[10])
  /\ Len(out) >= 11 => IsBlank(out[11])
  /\ Len(out) >= 12 => IsCreators(out[12])

\* C9 amended: the same order with one more blank, between the payload
\* types and the union; nothing is written after the constructors.
C9_WriteOrder ==
  /\ Len(out) <= 13
  /\ pc = "done" => Len(out) = 13
  /\ Len(out) >= 1 => IsReduxImport(out[1])
  /\ Len(out) >= 2 => IsActionsImport(out[2])
  /\ Len(out) >= 3 => IsPassThrough(out[3])
  /\ Len(out) >= 4 => IsEnumBlock(out[4])
  /\ Len(out) >= 5 => IsBlank(out[5])
  /\ Len(out) >= 6 => IsTable(out[6])
  /\ Len(out) >= 7 => IsBlank(out[7])
  /\ Len(out) >= 8 => IsWrapper(out[8])
  /\ Len(out) >= 9 => IsTypes(out[9])
  /\ Len(out) >= 10 => IsBlank(out[10])
  /\ Len(out) >= 11 => IsUnion(out[11])
  /\ Len(out) >= 12 => IsBlank(out[12])
  /\ Len(out) >= 13 => IsCreators(out[13])

\* A finished run over an input with an import and a record.
C9_Witness ==
  /\ pc = "done"
  /\ Len(out) = 13
  /\ imports # <<>>
  /\ actions # <<>>
  /\ IsUnion(out[11])
  /\ StartsLike(out[13], "export function ")

====
